---- MODULE Spec2Model ----
(***************************************************************************)
(* Model of the two encoders of the repository:                            *)
(*   turing-machine-as-sat/solution.py  (TMAcceptanceSAT and its main)     *)
(*   nonogram/nonogram.py               (NonogramFormulasGenerator,        *)
(*                                       get_solution)                     *)
(* The external solver is modelled by what it returns: any interpretation  *)
(* that satisfies the asserted formula, or "unsat" when there is none.     *)
(***************************************************************************)
EXTENDS Integers, Sequences, FiniteSets, TLC

VARIABLES
    tm,          \* the TMAcceptanceSAT object: transitions, word (solution.py:68-73)
    valuation,   \* the dict returned by solveSAT
    history,     \* the list returned by decodeSATOutput
    output,      \* what __main__ printed
    pc,          \* position of __main__
    nono,        \* the arguments rows, cols of get_solution
    interp,      \* an interpretation of f and of the start_* variables
    holds,       \* value of generate_all_formulas under interp
    result,      \* the value returned by get_solution
    npc          \* position of nonogram.main

tmvars == <<tm, valuation, history, output, pc>>
nonovars == <<nono, interp, holds, result, npc>>
vars == <<tm, valuation, history, output, pc, nono, interp, holds, result, npc>>

(***************************************************************************)
(* Bounds of the model.                                                    *)
(***************************************************************************)
MaxLen == 3

Min(S) == CHOOSE m \in S : \A k \in S : m <= k

(***************************************************************************)
(*                turing-machine-as-sat/solution.py                        *)
(***************************************************************************)

\* The machines the model runs: a fixed alphabet and state list, and every
\* non-empty transition table drawn from TransitionPool.
Alphabet == <<"a", "b">>
States == <<"q0", "qa">>
InitState == "q0"
AcceptingState == "qa"

Tr(src, read, dst, write, dir) ==
    [src |-> src, read |-> read, dst |-> dst, write |-> write, dir |-> dir]

TransitionPool ==
    { Tr("q0", "a", "q0", "a", 1),      \* skip an a to the right
      Tr("q0", "a", "q0", "b", 0),      \* overwrite an a by b in place
      Tr("q0", "b", "qa", "b", 0),      \* accept on b
      Tr("q0", "b", "q0", "a", -1) }    \* overwrite a b by a and step left

RECURSIVE WordsOfLen(_)
WordsOfLen(k) ==
    IF k = 0 THEN {<<>>}
    ELSE {Append(w, Alphabet[c]) : w \in WordsOfLen(k - 1), c \in 1..Len(Alphabet)}

Words == UNION {WordsOfLen(k) : k \in 1..MaxLen}

\* self.* of TMAcceptanceSAT
alphabet == tm.alphabet
states == tm.states
transitions == tm.transitions
initState == tm.initState
acceptingState == tm.acceptingState
word == tm.word

N == Len(word)
Steps == 0..(N - 1)
Cells == 0..(N - 1)
StateIdx == 0..(Len(states) - 1)
CharIdx == 0..(Len(alphabet) - 1)

\* self.transitions.get((state, char), [])
TransitionsGet(state, char) ==
    {t \in transitions : t.src = state /\ t.read = char}

\* The literals. str(X(step, state)) = "x_<step>_<state>" etc.: the three
\* templates name different variables for different arguments, so a literal
\* is identified by its kind and its arguments.
X(v, step, state) == <<step, state>> \in v.x
Y(v, step, pos) == <<step, pos>> \in v.y
Z(v, step, pos, char) == <<step, pos, char>> \in v.z

(***************************************************************************)
(* The formulas of generateSAT.  Each formulasF(v) is the truth value of    *)
(* the conjunction the method returns under the valuation v; FAt(v, step)   *)
(* is the part its loop body contributes for one value of step.  And of an *)
(* empty list is the empty conjunction, which is true.                     *)
(***************************************************************************)

\* _formulasNoMultipleStates, body of the loop over step
NoMultipleStatesAt_SkipAdjacent(v, step) ==
    \A q1 \in StateIdx : \A q2 \in (q1 + 2)..(Len(states) - 1) :
        ~(X(v, step, states[q1 + 1]) /\ X(v, step, states[q2 + 1]))

NoMultipleStatesAt(v, step) ==
    \A q1 \in StateIdx : \A q2 \in (q1 + 1)..(Len(states) - 1) :
        ~(X(v, step, states[q1 + 1]) /\ X(v, step, states[q2 + 1]))

formulasNoMultipleStates(v) ==
    \A step \in Steps : NoMultipleStatesAt(v, step)

\* _formulasNoMultipleHeadPositions, body of the loop over step
NoMultipleHeadPositionsAt(v, step) ==
    \A pos1 \in Cells : \A pos2 \in (pos1 + 1)..(N - 1) :
        ~(Y(v, step, pos1) /\ Y(v, step, pos2))

formulasNoMultipleHeadPositions(v) ==
    \A step \in Steps : NoMultipleHeadPositionsAt(v, step)

\* _formulasNoMultipleCharacters, body of the loop over step
NoMultipleCharactersAt(v, step) ==
    \A pos \in Cells :
        \A char1 \in CharIdx : \A char2 \in (char1 + 1)..(Len(alphabet) - 1) :
            ~(Z(v, step, pos, alphabet[char1 + 1]) /\ Z(v, step, pos, alphabet[char2 + 1]))

formulasNoMultipleCharacters(v) ==
    \A step \in Steps : NoMultipleCharactersAt(v, step)

\* _formulasNonHeadCharsNonModifiable, body of the loop over step
NonHeadCharsNonModifiableAt(v, step) ==
    \A pos \in Cells : \A c \in CharIdx :
        (~Y(v, step, pos) /\ Z(v, step, pos, alphabet[c + 1]))
            => Z(v, step + 1, pos, alphabet[c + 1])

formulasNonHeadCharsNonModifiable(v) ==
    \A step \in 0..(N - 2) : NonHeadCharsNonModifiableAt(v, step)

\* _formulasValidTransitions, body of the loop over step.  An implication is
\* generated only when the list of consequents is not empty (line 252).
ValidTransitionsAt(v, step) ==
    \A pos \in Cells : \A q \in StateIdx : \A c \in CharIdx :
        LET state == states[q + 1]
            char == alphabet[c + 1]
            antecedent == X(v, step, state) /\ Y(v, step, pos) /\ Z(v, step, pos, char)
            consequent == {t \in TransitionsGet(state, char) :
                              0 <= pos + t.dir /\ pos + t.dir < N}
        IN  consequent # {} =>
                (antecedent =>
                    \E t \in consequent :
                        /\ X(v, step + 1, t.dst)
                        /\ Y(v, step + 1, pos + t.dir)
                        /\ Z(v, step + 1, pos, t.write))

formulasValidTransitions(v) ==
    \A step \in 0..(N - 2) : ValidTransitionsAt(v, step)

\* _formulasReachAcceptingState
formulasReachAcceptingState(v) ==
    \E step \in Steps : X(v, step, acceptingState)

\* _formulasInitial
formulasInitial(v) ==
    /\ X(v, 0, initState)
    /\ Y(v, 0, 0)
    /\ \A pos \in Cells : Z(v, 0, pos, word[pos + 1])

\* generateSAT: And(sat) over the seven conditions, in the order of the list
generateSAT(v) ==
    /\ formulasInitial(v)
    /\ formulasNoMultipleStates(v)
    /\ formulasReachAcceptingState(v)
    /\ formulasNoMultipleCharacters(v)
    /\ formulasNoMultipleHeadPositions(v)
    /\ formulasValidTransitions(v)
    /\ formulasNonHeadCharsNonModifiable(v)

(***************************************************************************)
(* solveSAT.  Solver.check()/model() return some valuation of the Bool      *)
(* variables that satisfies the formula, or none.  SatisfyingValuations     *)
(* is the set of all of them, collected one step at a time: a valuation of  *)
(* the variables of steps 0..k is kept only when the conjuncts that mention *)
(* no later step hold, and generateSAT itself decides on the full ones.    *)
(***************************************************************************)
EmptyValuation == [x |-> {}, y |-> {}, z |-> {}]

StateSets(step) ==
    {qs \in SUBSET {states[i] : i \in 1..Len(states)} :
        NoMultipleStatesAt([EmptyValuation EXCEPT !.x = {step} \X qs], step)}

HeadSets(step) ==
    {hs \in SUBSET Cells :
        NoMultipleHeadPositionsAt([EmptyValuation EXCEPT !.y = {step} \X hs], step)}

TapeSets(step) ==
    {zs \in SUBSET (Cells \X {alphabet[i] : i \in 1..Len(alphabet)}) :
        NoMultipleCharactersAt(
            [EmptyValuation EXCEPT !.z = {<<step, pc_[1], pc_[2]>> : pc_ \in zs}], step)}

Extended(v, step, qs, hs, zs) ==
    [x |-> v.x \union ({step} \X qs),
     y |-> v.y \union ({step} \X hs),
     z |-> v.z \union {<<step, e[1], e[2]>> : e \in zs}]

Extensions(v, step) ==
    {w \in {Extended(v, step, qs, hs, zs) :
                qs \in StateSets(step), hs \in HeadSets(step), zs \in TapeSets(step)} :
        IF step = 0 THEN formulasInitial(w)
        ELSE ValidTransitionsAt(w, step - 1) /\ NonHeadCharsNonModifiableAt(w, step - 1)}

RECURSIVE Prefixes(_)
Prefixes(k) ==
    IF k = 0 THEN {EmptyValuation}
    ELSE UNION {Extensions(v, k - 1) : v \in Prefixes(k - 1)}

SatisfyingValuations == {v \in Prefixes(N) : generateSAT(v)}

\* The dict solveSAT returns: one entry per Bool variable of the model (taken
\* to be every x, y and z variable, which is what decodeSATOutput looks up), or
\* no entry at all when the formula is not satisfiable.  size is len(valuation); x, y, z hold the variables
\* whose entry is True.
NumVariables == N * Len(states) + N * N + N * N * Len(alphabet)

solveSAT_Sat == {[size |-> NumVariables, x |-> v.x, y |-> v.y, z |-> v.z] :
                    v \in SatisfyingValuations}

\* dict(...) over model = []
solveSAT_Unsat == [size |-> 0, x |-> {}, y |-> {}, z |-> {}]

\* the possible return values of solveSAT(generateSAT())
solveSAT ==
    IF solveSAT_Sat # {} THEN solveSAT_Sat ELSE {solveSAT_Unsat}

(***************************************************************************)
(* decodeSATOutput                                                         *)
(***************************************************************************)
Last(s) == s[Len(s)]

\* lines 122-125: the first state of self.states whose variable is True
FoundState(val, step) ==
    LET idx == {i \in 1..Len(states) : X(val, step, states[i])}
    IN  IF idx = {} THEN <<>> ELSE <<states[Min(idx)]>>

\* lines 128-131: the first position whose variable is True
FoundHead(val, step) ==
    LET ps == {pos \in Cells : Y(val, step, pos)}
    IN  IF ps = {} THEN <<>> ELSE <<Min(ps)>>

\* lines 134-139: for every position that holds a character, in order, the pair
\* (pos, first character of self.alphabet whose variable is True)
RECURSIVE FoundTapeFrom(_, _, _)
FoundTapeFrom(val, step, pos) ==
    IF pos >= N THEN <<>>
    ELSE LET idx == {i \in 1..Len(alphabet) : Z(val, step, pos, alphabet[i])}
         IN  (IF idx = {} THEN <<>> ELSE << <<pos, alphabet[Min(idx)]>> >>)
                 \o FoundTapeFrom(val, step, pos + 1)

FoundTape(val, step) == FoundTapeFrom(val, step, 0)

\* lines 120-142: the three histories; raised when stateHistory[-1] is read
\* from an empty list
RECURSIVE DecodeLoop(_, _, _)
DecodeLoop(val, step, acc) ==
    IF step >= N THEN acc
    ELSE LET acc2 == [stateHistory |-> acc.stateHistory \o FoundState(val, step),
                      headPositionHistory |-> acc.headPositionHistory \o FoundHead(val, step),
                      tapeHistory |-> Append(acc.tapeHistory, FoundTape(val, step)),
                      raised |-> FALSE]
         IN  IF acc2.stateHistory = <<>> THEN [acc2 EXCEPT !.raised = TRUE]
             ELSE IF Last(acc2.stateHistory) = acceptingState THEN acc2
             ELSE DecodeLoop(val, step + 1, acc2)

\* ' '.join(tapeContent)
RECURSIVE Join(_)
Join(parts) ==
    IF parts = <<>> THEN ""
    ELSE IF Len(parts) = 1 THEN parts[1]
    ELSE parts[1] \o " " \o Join(Tail(parts))

\* lines 147-152: one line of the output.  Every cell prints as c + '| ', and the
\* last character of the cell at index headPosition is replaced by the state.
FormatLine(tape, state, headPosition) ==
    Join([i \in 1..Len(tape) |->
            IF i = headPosition + 1 THEN tape[i][2] \o "|" \o state
            ELSE tape[i][2] \o "| "])

\* lines 146-153 raise IndexError when headPositionHistory is shorter than
\* stateHistory, or when headPosition is not an index of tapeContent
FormatRaises(acc) ==
    \E step \in 1..Len(acc.stateHistory) :
        \/ step > Len(acc.headPositionHistory)
        \/ acc.headPositionHistory[step] >= Len(acc.tapeHistory[step])

decodeSATOutput(val) ==
    IF val.size = 0 THEN [raised |-> FALSE, lines |-> <<>>]
    ELSE LET acc == DecodeLoop(val, 0, [stateHistory |-> <<>>, headPositionHistory |-> <<>>,
                                        tapeHistory |-> <<>>, raised |-> FALSE])
         IN  IF acc.raised \/ FormatRaises(acc) THEN [raised |-> TRUE, lines |-> <<>>]
             ELSE [raised |-> FALSE,
                   lines |-> [step \in 1..Len(acc.stateHistory) |->
                                FormatLine(acc.tapeHistory[step], acc.stateHistory[step],
                                           acc.headPositionHistory[step])]]

(***************************************************************************)
(* __main__ (lines 279-302): read the machine and the word, build and solve *)
(* the formula, decode the valuation, print the answer.                    *)
(***************************************************************************)
NoValuation == solveSAT_Unsat
NoHistory == [raised |-> FALSE, lines |-> <<>>]
NoOutput == [answer |-> "", lines |-> <<>>]
NoNono == [rows |-> <<>>, cols |-> <<>>]
NoInterp == [f |-> {}, row |-> <<>>, col |-> <<>>]

InitTM ==
    /\ tm \in [alphabet : {Alphabet}, states : {States},
               transitions : (SUBSET TransitionPool) \ {{}},
               initState : {InitState}, acceptingState : {AcceptingState},
               word : Words]
    /\ valuation = NoValuation
    /\ history = NoHistory
    /\ output = NoOutput
    /\ pc = "read"
    /\ nono = NoNono /\ interp = NoInterp /\ holds = FALSE /\ result = "" /\ npc = "off"

\* lines 294-295
Solve ==
    /\ pc = "read"
    /\ valuation' \in solveSAT
    /\ pc' = "solved"
    /\ UNCHANGED <<tm, history, output>>
    /\ UNCHANGED nonovars

\* line 296; an exception ends the program
Decode ==
    /\ pc = "solved"
    /\ history' = decodeSATOutput(valuation)
    /\ pc' = IF history'.raised THEN "raised" ELSE "decoded"
    /\ UNCHANGED <<tm, valuation, output>>
    /\ UNCHANGED nonovars

\* lines 297-302
PrintAnswer ==
    /\ pc = "decoded"
    /\ output' = IF history.lines = <<>> THEN [answer |-> "NO", lines |-> <<>>]
                 ELSE [answer |-> "YES", lines |-> history.lines]
    /\ pc' = "done"
    /\ UNCHANGED <<tm, valuation, history>>
    /\ UNCHANGED nonovars

NextTM == Solve \/ Decode \/ PrintAnswer

SpecTM == InitTM /\ [][NextTM]_vars

(***************************************************************************)
(* The machine itself, for the statements about the encoding: its          *)
(* configurations, its step relation restricted to the cells of the input  *)
(* word, and its accepting runs of at most |w| configurations (the steps   *)
(* 0..|w|-1 of the encoding).                                               *)
(***************************************************************************)
Solved == pc \in {"solved", "decoded", "raised", "done"}
Satisfied == Solved /\ valuation.size > 0

StatesAt(val, step) == {states[i] : i \in {j \in 1..Len(states) : X(val, step, states[j])}}
HeadsAt(val, step) == {pos \in Cells : Y(val, step, pos)}
CharsAt(val, step, pos) ==
    {alphabet[i] : i \in {j \in 1..Len(alphabet) : Z(val, step, pos, alphabet[j])}}

IsConfiguration(val, step) ==
    /\ Cardinality(StatesAt(val, step)) = 1
    /\ Cardinality(HeadsAt(val, step)) = 1
    /\ \A pos \in Cells : Cardinality(CharsAt(val, step, pos)) = 1

The(S) == CHOOSE e \in S : TRUE

ConfigurationAt(val, step) ==
    [state |-> The(StatesAt(val, step)),
     head |-> The(HeadsAt(val, step)),
     tape |-> [pos \in Cells |-> The(CharsAt(val, step, pos))]]

InitialConfiguration ==
    [state |-> initState, head |-> 0, tape |-> [pos \in Cells |-> word[pos + 1]]]

MachineStep(c) ==
    {[state |-> t.dst, head |-> c.head + t.dir, tape |-> [c.tape EXCEPT ![c.head] = t.write]] :
        t \in {u \in transitions : /\ u.src = c.state
                                   /\ u.read = c.tape[c.head]
                                   /\ c.head + u.dir \in Cells}}

\* runs of exactly k configurations that are not accepting before the last one
RECURSIVE RunsOfLength(_)
RunsOfLength(k) ==
    IF k = 1 THEN {<<InitialConfiguration>>}
    ELSE UNION {{Append(r, c) : c \in MachineStep(Last(r))} :
                    r \in {q \in RunsOfLength(k - 1) : Last(q).state # acceptingState}}

AcceptingRuns ==
    UNION {{r \in RunsOfLength(k) : Last(r).state = acceptingState} : k \in 1..N}

MachineAccepts == AcceptingRuns # {}

AcceptingSteps(val) == {step \in Steps : X(val, step, acceptingState)}

\* the valuation val describes a valid accepting run
IsAcceptingRun(val) ==
    /\ AcceptingSteps(val) # {}
    /\ LET k == Min(AcceptingSteps(val))
       IN  /\ \A step \in 0..k : IsConfiguration(val, step)
           /\ ConfigurationAt(val, 0) = InitialConfiguration
           /\ \A step \in 0..(k - 1) :
                  ConfigurationAt(val, step + 1) \in MachineStep(ConfigurationAt(val, step))

\* the valuation val describes the run r up to its accepting configuration
Describes(val, r) ==
    \A step \in 0..(Len(r) - 1) :
        IsConfiguration(val, step) /\ ConfigurationAt(val, step) = r[step + 1]

\* C1: the satisfying valuations of generateSAT are exactly the valid accepting
\* runs: every satisfying valuation starts in the initial configuration, follows
\* the transition table up to its first accepting configuration and reaches the
\* accepting state; and every accepting run is described by a satisfying
\* valuation.
C1_SatisfyingIffAcceptingRun ==
    /\ Satisfied => IsAcceptingRun(valuation)
    /\ pc = "read" => \A r \in AcceptingRuns :
                          \E v \in SatisfyingValuations : Describes(v, r)

\* C3: the formula is satisfiable, and the program prints YES, exactly when the
\* machine accepts the word within the cells of the word and steps 0..|w|-1;
\* otherwise it is unsatisfiable and the program prints NO.
C3_SatisfiableIffAccepts ==
    /\ Solved => ((valuation.size > 0) <=> MachineAccepts)
    /\ pc = "done" => output.answer = (IF MachineAccepts THEN "YES" ELSE "NO")

\* the line that shows the configuration of val at step: all |w| cells, the
\* state marker at the head position
ShownConfiguration(val, step) ==
    LET c == ConfigurationAt(val, step)
    IN  Join([i \in 1..N |-> c.tape[i - 1] \o "|" \o (IF c.head = i - 1 THEN c.state ELSE " ")])

\* C5: for a satisfying valuation decodeSATOutput returns one line per step from
\* step 0 to the first accepting step, in order, each showing that step's
\* configuration (the first the initial one, the last the accepting one); for
\* the empty valuation it returns the empty list.
C5_DecodeReturnsAcceptingRun ==
    pc \in {"decoded", "raised", "done"} =>
        IF valuation.size = 0 THEN ~history.raised /\ history.lines = <<>>
        ELSE /\ ~history.raised
             /\ AcceptingSteps(valuation) # {}
             /\ LET k == Min(AcceptingSteps(valuation))
                IN  /\ Len(history.lines) = k + 1
                    /\ \A step \in 0..k :
                          /\ IsConfiguration(valuation, step)
                          /\ history.lines[step + 1] = ShownConfiguration(valuation, step)
                    /\ ConfigurationAt(valuation, 0) = InitialConfiguration
                    /\ ConfigurationAt(valuation, k).state = acceptingState

\* C6: in every satisfying valuation, at every step the machine is in at most
\* one state, the head is at at most one position, and every cell holds at most
\* one character.
C6_AtMostOne ==
    Satisfied =>
        \A step \in Steps :
            /\ Cardinality(StatesAt(valuation, step)) <= 1
            /\ Cardinality(HeadsAt(valuation, step)) <= 1
            /\ \A pos \in Cells : Cardinality(CharsAt(valuation, step, pos)) <= 1

\* a satisfying valuation was returned that describes a run of the machine
\* which reaches the accepting state only at the last of three steps
C6_Witness ==
    /\ pc = "solved" /\ valuation.size > 0
    /\ N = 3
    /\ IsAcceptingRun(valuation)
    /\ Min(AcceptingSteps(valuation)) = N - 1

\* C7: in every satisfying valuation, a cell that is not under the head at step
\* s holds at step s+1 what it holds at step s.
C7_NonHeadCellsUnchanged ==
    Satisfied =>
        \A step \in 0..(N - 2) : \A pos \in Cells :
            ~Y(valuation, step, pos) =>
                CharsAt(valuation, step + 1, pos) = CharsAt(valuation, step, pos)

\* what the two formulas behind C7 do give: a character in a cell that is not
\* under the head is still the cell's only character one step later
NonHeadCharacterKept ==
    Satisfied =>
        \A step \in 0..(N - 2) : \A pos \in Cells :
            (~Y(valuation, step, pos) /\ CharsAt(valuation, step, pos) # {}) =>
                CharsAt(valuation, step + 1, pos) = CharsAt(valuation, step, pos)

(***************************************************************************)
(*                        nonogram/nonogram.py                             *)
(***************************************************************************)
MaxRows == 2
MaxCols == 2

\* the arguments of get_solution
rows == nono.rows
cols == nono.cols
NumRows == Len(rows)
NumCols == Len(cols)

RECURSIVE SumSeq(_)
SumSeq(q) == IF q = <<>> THEN 0 ELSE Head(q) + SumSeq(Tail(q))

\* the clue lists given for a line of n cells: positive run lengths, of sum
\* at most n (some of them do not fit into the line with their gaps)
RECURSIVE CluesOfSum(_)
CluesOfSum(k) ==
    IF k = 0 THEN {<<>>}
    ELSE UNION {{<<first>> \o rest : rest \in CluesOfSum(k - first)} : first \in 1..k}

Clues(n) == UNION {CluesOfSum(k) : k \in 0..n}

\* An interpretation: f is the set of cells at which the function f is True,
\* row[v][i] and col[v][i] are the values of start_row_<v-1>_<i-1> and
\* start_col_<v-1>_<i-1>.
F(I, r, c) == <<r, c>> \in I.f

\* _generate_sequence_rows_formulas(self.rows, f); the quantified x ranges over
\* the integers, and only start <= x < start + length make the antecedent true
generate_sequence_rows_formulas_NoEndCell(I) ==
    \A row_nr \in 0..(NumRows - 1) :
        LET row == rows[row_nr + 1]
            start == I.row[row_nr + 1]
        IN  \A i \in 0..(Len(row) - 1) :
                LET start_pos == start[i + 1]
                    length == row[i + 1]
                IN  /\ \A x \in start_pos..(start_pos + length - 1) : F(I, row_nr, x)
                    /\ IF i = 0 THEN start_pos >= 0
                       ELSE start[i] + row[i] < start_pos
                    /\ (i = Len(row) - 1) => start_pos + length <= NumCols

generate_sequence_rows_formulas(I) ==
    \A row_nr \in 0..(NumRows - 1) :
        LET row == rows[row_nr + 1]
            start == I.row[row_nr + 1]
        IN  \A i \in 0..(Len(row) - 1) :
                LET start_pos == start[i + 1]
                    length == row[i + 1]
                IN  /\ \A x \in start_pos..(start_pos + length - 1) : F(I, row_nr, x)
                    /\ ~F(I, row_nr, start_pos + length)
                    /\ IF i = 0 THEN start_pos >= 0
                       ELSE start[i] + row[i] < start_pos
                    /\ (i = Len(row) - 1) => start_pos + length <= NumCols

\* _generate_sequence_columns_formulas(self.cols, f)
generate_sequence_columns_formulas(I) ==
    \A col_nr \in 0..(NumCols - 1) :
        LET col == cols[col_nr + 1]
            start == I.col[col_nr + 1]
        IN  \A i \in 0..(Len(col) - 1) :
                LET start_pos == start[i + 1]
                    length == col[i + 1]
                IN  /\ \A x \in start_pos..(start_pos + length - 1) : F(I, x, col_nr)
                    /\ ~F(I, start_pos + length, col_nr)
                    /\ IF i = 0 THEN start_pos >= 0
                       ELSE start[i] + col[i] < start_pos
                    /\ (i = Len(col) - 1) => start_pos + length <= NumRows

\* _generate_sum_check_rows(f)
generate_sum_check_rows_RowRange(I) ==
    \A row_nr \in 0..(NumRows - 1) :
        Cardinality({col_nr \in 0..(NumRows - 1) : F(I, row_nr, col_nr)})
            = SumSeq(rows[row_nr + 1])

generate_sum_check_rows(I) ==
    \A row_nr \in 0..(NumRows - 1) :
        Cardinality({col_nr \in 0..(NumCols - 1) : F(I, row_nr, col_nr)})
            = SumSeq(rows[row_nr + 1])

\* _generate_sum_check_columns(f)
generate_sum_check_columns(I) ==
    \A col_nr \in 0..(NumCols - 1) :
        Cardinality({x \in 0..(NumRows - 1) : F(I, x, col_nr)})
            = SumSeq(cols[col_nr + 1])

\* generate_all_formulas(f)
generate_all_formulas(I) ==
    /\ generate_sequence_rows_formulas(I)
    /\ generate_sum_check_rows(I)
    /\ generate_sum_check_columns(I)
    /\ generate_sequence_columns_formulas(I)

(***************************************************************************)
(* model(phi): the solver returns an interpretation that satisfies phi, or  *)
(* ["unsat"].  A formula of generate_all_formulas reads f only at the cells *)
(* of the grid and at the cells just past the end of a row or a column, and *)
(* is false when a start_* variable lies outside -1..n+1; the               *)
(* interpretations are enumerated over these.                               *)
(***************************************************************************)
Grid == (0..(NumRows - 1)) \X (0..(NumCols - 1))
Window == Grid \union ({NumRows} \X (0..(NumCols - 1)))
               \union ((0..(NumRows - 1)) \X {NumCols})

StartRange(n) == (0 - 1)..(n + 1)

RECURSIVE StartChoices(_, _, _)
StartChoices(vectors, n, k) ==
    IF k = 0 THEN {<<>>}
    ELSE {Append(p, st) : p \in StartChoices(vectors, n, k - 1),
                          st \in [1..Len(vectors[k]) -> StartRange(n)]}

\* the satisfying interpretations whose f is fI
ModelsWith(fI) ==
    LET sums == [f |-> fI, row |-> <<>>, col |-> <<>>]
    IN  IF ~(generate_sum_check_rows(sums) /\ generate_sum_check_columns(sums)) THEN {}
        ELSE LET rs == {r \in StartChoices(rows, NumCols, NumRows) :
                           generate_sequence_rows_formulas([f |-> fI, row |-> r, col |-> <<>>])}
                 cs == {c \in StartChoices(cols, NumRows, NumCols) :
                           generate_sequence_columns_formulas([f |-> fI, row |-> <<>>, col |-> c])}
             IN  {I \in {[f |-> fI, row |-> r, col |-> c] : r \in rs, c \in cs} :
                     generate_all_formulas(I)}

Models == UNION {ModelsWith(fI) : fI \in SUBSET Window}

\* lines 162-167
RECURSIVE RenderFrom(_, _, _)
RenderFrom(I, row, col) ==
    IF row >= NumRows THEN ""
    ELSE IF col >= NumCols
         THEN (IF row # NumRows - 1 THEN "\n" ELSE "") \o RenderFrom(I, row + 1, 0)
         ELSE (IF F(I, row, col) THEN "#" ELSE ".") \o RenderFrom(I, row, col + 1)

Render(I) == RenderFrom(I, 0, 0)

\* get_solution: the values it can return
get_solution ==
    IF Models = {} THEN {"unsolvable"}
    ELSE {(LET modelsG == {G \in Models : \E cell \in Grid :
                              F(modelF, cell[1], cell[2]) # F(G, cell[1], cell[2])}
           IN  IF modelsG # {} THEN "many solutions" ELSE Render(modelF)) :
             modelF \in Models}

InitNono ==
    /\ \E nr \in 1..MaxRows, nc \in 1..MaxCols :
          nono \in [rows : [1..nr -> Clues(nc)], cols : [1..nc -> Clues(nr)]]
    /\ interp = NoInterp
    /\ holds = FALSE
    /\ result = ""
    /\ npc = "read"
    /\ tm = [alphabet |-> <<>>, states |-> <<>>, transitions |-> {},
             initState |-> "", acceptingState |-> "", word |-> <<>>]
    /\ valuation = NoValuation /\ history = NoHistory /\ output = NoOutput /\ pc = "off"

\* main, line 179
GetSolution ==
    /\ npc = "read"
    /\ result' \in get_solution
    /\ npc' = "printed"
    /\ UNCHANGED <<nono, interp, holds>>
    /\ UNCHANGED tmvars

\* generate_all_formulas(f) under an interpretation of f: with start_* values
\* that satisfy it when there are any
Interpret ==
    /\ npc = "read"
    /\ \E fI \in SUBSET Window :
          /\ holds' = (ModelsWith(fI) # {})
          /\ IF ModelsWith(fI) # {} THEN interp' \in ModelsWith(fI)
             ELSE interp' = [f |-> fI, row |-> <<>>, col |-> <<>>]
    /\ npc' = "interpreted"
    /\ UNCHANGED <<nono, result>>
    /\ UNCHANGED tmvars

NextNono == GetSolution \/ Interpret

SpecNono == InitNono /\ [][NextNono]_vars

(***************************************************************************)
(* The puzzle itself, for the statements about the encoding: the runs of   *)
(* marked cells of a line and the grids that satisfy all clues.            *)
(***************************************************************************)
\* the lengths of the maximal runs of TRUE in line, in order
RECURSIVE LineRunsFrom(_, _, _)
LineRunsFrom(line, i, cur) ==
    IF i > Len(line) THEN (IF cur > 0 THEN <<cur>> ELSE <<>>)
    ELSE IF line[i] THEN LineRunsFrom(line, i + 1, cur + 1)
    ELSE (IF cur > 0 THEN <<cur>> ELSE <<>>) \o LineRunsFrom(line, i + 1, 0)

LineRuns(line) == LineRunsFrom(line, 1, 0)

RowOf(g, r) == [c \in 1..NumCols |-> <<r, c - 1>> \in g]
ColOf(g, c) == [r \in 1..NumRows |-> <<r - 1, c>> \in g]

\* the marked cells g, inside the grid, satisfy every row and column clue
SatisfiesClues(g) ==
    /\ \A r \in 0..(NumRows - 1) : LineRuns(RowOf(g, r)) = rows[r + 1]
    /\ \A c \in 0..(NumCols - 1) : LineRuns(ColOf(g, c)) = cols[c + 1]

GridSolutions == {g \in SUBSET Grid : SatisfiesClues(g)}

\* '#' for a marked cell, '.' for an unmarked one, one line per row, the lines
\* joined by a newline
RowText(g, r) ==
    LET cell(c) == IF <<r, c>> \in g THEN "#" ELSE "."
        F2[c \in 0..NumCols] == IF c = NumCols THEN "" ELSE cell(c) \o F2[c + 1]
    IN  F2[0]

GridText(g) ==
    LET G2[r \in 0..NumRows] ==
            IF r >= NumRows - 1 THEN (IF r = NumRows - 1 THEN RowText(g, r) ELSE "")
            ELSE RowText(g, r) \o "\n" \o G2[r + 1]
    IN  G2[0]

\* C2: get_solution returns 'unsolvable' exactly when no grid satisfies the
\* clues, 'many solutions' exactly when more than one does, and otherwise the
\* text of the single grid that does.
C2_GetSolution ==
    npc = "printed" =>
        /\ (result = "unsolvable") <=> (GridSolutions = {})
        /\ (result = "many solutions") <=> (Cardinality(GridSolutions) > 1)
        /\ \A g \in GridSolutions : GridSolutions = {g} => result = GridText(g)

\* get_solution returned the text of the only solution of a puzzle of two rows
\* and two columns with marked and unmarked cells
C2_Witness ==
    /\ npc = "printed"
    /\ NumRows = 2 /\ NumCols = 2
    /\ \E g \in GridSolutions : GridSolutions = {g} /\ g # {} /\ g # Grid
    /\ result \notin {"unsolvable", "many solutions"}

UnmarkedPastEdge(f) ==
    /\ \A r \in 0..(NumRows - 1) : <<r, NumCols - 1>> \in f => <<r, NumCols>> \notin f
    /\ \A c \in 0..(NumCols - 1) : <<NumRows - 1, c>> \in f => <<NumRows, c>> \notin f

====
